---- MODULE Spec2Model ----
(***************************************************************************)
(* Model of the IEC 61131-3 code generator session: the Streamlit          *)
(* handlers of handlers.py, the helpers of utils.py and the clarification  *)
(* buttons of main.py.                                                     *)
(*                                                                         *)
(* Text is modelled by TLA+ strings, character by character (Len, SubSeq   *)
(* and \o on strings).  The backtick cannot be written inside a TLA+       *)
(* string, so the character BACKTICK stands for it.                        *)
(***************************************************************************)
EXTENDS Integers, Sequences, FiniteSets, TLC

VARIABLES
    session_state,   \* st.session_state: the record PLCSessionState.initialize builds
    kb_dir,          \* the kb directory on disk (environment, read by load_kb)
    op,              \* the last operation performed: its name and its input
    calls,           \* the stage invocations made by the last operation, in order
    ui,              \* the st.warning/info/error/success messages of the last operation
    outcome,         \* how the last operation ended: "returned", "rerun", "raised"
    pending_input,   \* the input whose generate-code left the clarification pending
    steps,           \* the number of operations performed in the session
    kb_query,        \* retrieval on its own: the query of the last retrieve_kb call
    kb_top_k,        \* retrieval on its own: the top_k of the last retrieve_kb call
    kb_hits,         \* retrieval on its own: what the last retrieve_kb call returned
    runner_call,     \* stage runner on its own: the capability script and the label
    runner_result,   \* stage runner on its own: what safe_agent_run returned
    tasks,           \* two handlers run as concurrent tasks: each task's position and locals
    extraction,      \* code extraction on its own: the response and what was made of it
    show_refinement  \* st.session_state.show_refinement: the refinement section is shown

vars == <<session_state, kb_dir, op, calls, ui, outcome, pending_input, steps,
          kb_query, kb_top_k, kb_hits, runner_call, runner_result, tasks, extraction,
          show_refinement>>

-----------------------------------------------------------------------------
(* Characters and strings                                                  *)

BACKTICK == "~"
FENCE == BACKTICK \o BACKTICK \o BACKTICK

Lowers == "abcdefghijklmnopqrstuvwxyz"
Uppers == "ABCDEFGHIJKLMNOPQRSTUVWXYZ"
Digits == "0123456789"

Char(s, i) == SubSeq(s, i, i)

CharsOf(s) == {Char(s, i) : i \in 1..Len(s)}

IndexIn(c, alphabet) == CHOOSE i \in 1..Len(alphabet) : Char(alphabet, i) = c

\* str.isspace for one character
IsSpace(c) == c \in {" ", "\n", "\t", "\r", "\f"}

\* the character class [a-zA-Z0-9_], also the \w of the \b word boundary
LowerSet == CharsOf(Lowers)
UpperSet == CharsOf(Uppers)
WordChars == LowerSet \cup UpperSet \cup CharsOf(Digits) \cup {"_"}

IsWordChar(c) == c \in WordChars

UpperOf == [c \in LowerSet |-> Char(Uppers, IndexIn(c, Lowers))]
LowerOf == [c \in UpperSet |-> Char(Lowers, IndexIn(c, Uppers))]

UpperChar(c) == IF c \in LowerSet THEN UpperOf[c] ELSE c

LowerChar(c) == IF c \in UpperSet THEN LowerOf[c] ELSE c

RECURSIVE UpperFrom(_, _)
UpperFrom(s, i) ==
    IF i > Len(s) THEN "" ELSE UpperChar(Char(s, i)) \o UpperFrom(s, i + 1)

\* fault variant of str.upper: the text is compared as it was written
upper_unchanged(s) == s

\* str.upper
Upper(s) == UpperFrom(s, 1)

RECURSIVE LowerFrom(_, _)
LowerFrom(s, i) ==
    IF i > Len(s) THEN "" ELSE LowerChar(Char(s, i)) \o LowerFrom(s, i + 1)

\* str.lower
Lower(s) == LowerFrom(s, 1)

\* the Python test: p in s
IsSubstr(p, s) ==
    \E i \in 1..(Len(s) - Len(p) + 1) : SubSeq(s, i, i + Len(p) - 1) = p

SetMin(S) == CHOOSE x \in S : \A y \in S : x <= y
SetMax(S) == CHOOSE x \in S : \A y \in S : x >= y

\* str.strip
Strip(s) ==
    LET solid == {i \in 1..Len(s) : ~IsSpace(Char(s, i))} IN
    IF solid = {} THEN "" ELSE SubSeq(s, SetMin(solid), SetMax(solid))

\* len(s.split()): the number of maximal runs of non-space characters
WordCount(s) ==
    Cardinality({i \in 1..Len(s) :
        /\ ~IsSpace(Char(s, i))
        /\ (i = 1 \/ IsSpace(Char(s, i - 1)))})

RECURSIVE IntStr(_)
\* str(n) for n >= 0
IntStr(n) ==
    IF n < 10 THEN Char(Digits, n + 1)
    ELSE IntStr(n \div 10) \o Char(Digits, (n % 10) + 1)

\* re.search(r'\b(k1|k2|...)\b', s) for a set of keywords made of word characters
WordSearch(keywords, s) ==
    \E k \in keywords : \E i \in 1..(Len(s) - Len(k) + 1) :
        /\ SubSeq(s, i, i + Len(k) - 1) = k
        /\ (i = 1 \/ ~IsWordChar(Char(s, i - 1)))
        /\ (i + Len(k) > Len(s) \/ ~IsWordChar(Char(s, i + Len(k))))

\* Python values that may be None
None == [some |-> FALSE, v |-> ""]
Some(t) == [some |-> TRUE, v |-> t]

\* Python truthiness of an optional string: None and "" are falsy
Truthy(x) == x.some /\ x.v # ""

\* a message shown to the user
Msg(level, text) == [level |-> level, text |-> text]

-----------------------------------------------------------------------------
(* utils.py: safe_agent_run                                                *)

\* the capability, as seen by one stage run: what agent.run does on each of
\* the attempts the runner can make (raise with a message, or return a text)
Raise(message) == [raises |-> TRUE, text |-> message]
Return(text) == [raises |-> FALSE, text |-> text]

MAX_ATTEMPTS == 3
LAST_RETRY == 2

\* the for loop of safe_agent_run from the 0-based attempt on; invocations is
\* the number of agent.run calls made, failed tells that the except branch
\* produced the result
RECURSIVE AttemptLoop(_, _, _)
AttemptLoop(script, operation_name, attempt) ==
    LET result == script[attempt + 1] IN
    IF ~result.raises
    THEN [text |-> result.text, invocations |-> attempt + 1, failed |-> FALSE, ui |-> <<>>]
    ELSE IF attempt < LAST_RETRY
         THEN LET rest == AttemptLoop(script, operation_name, attempt + 1) IN
              [rest EXCEPT !.ui =
                  <<Msg("warning", operation_name \o " attempt " \o IntStr(attempt + 1)
                                   \o " failed, retrying...")>> \o @]
         ELSE [text |-> "Error in " \o operation_name \o ": " \o result.text,
               invocations |-> attempt + 1,
               failed |-> TRUE,
               ui |-> <<Msg("error", operation_name \o " failed after 3 attempts: "
                                      \o result.text)>>]

\* fault variant of safe_agent_run: no retry, the first failure is final
run_without_retry(script, operation_name) ==
    LET result == script[1] IN
    IF ~result.raises
    THEN [text |-> result.text, invocations |-> 1, failed |-> FALSE, ui |-> <<>>]
    ELSE [text |-> "Error in " \o operation_name \o ": " \o result.text,
          invocations |-> 1, failed |-> TRUE,
          ui |-> <<Msg("error", operation_name \o " failed after 3 attempts: "
                                 \o result.text)>>]

\* fault variant of safe_agent_run: no return inside the loop, every attempt
\* is made and the last one decides
run_every_attempt(script, operation_name) ==
    LET result == script[MAX_ATTEMPTS] IN
    IF ~result.raises
    THEN [text |-> result.text, invocations |-> MAX_ATTEMPTS, failed |-> FALSE,
          ui |-> <<>>]
    ELSE [text |-> "Error in " \o operation_name \o ": " \o result.text,
          invocations |-> MAX_ATTEMPTS, failed |-> TRUE,
          ui |-> <<Msg("error", operation_name \o " failed after 3 attempts: "
                                 \o result.text)>>]

safe_agent_run(script, operation_name) == AttemptLoop(script, operation_name, 0)

-----------------------------------------------------------------------------
(* utils.py: preprocess_input, validate_plc_requirements                   *)

BoolRepr(b) == IF b THEN "True" ELSE "False"

\* one entry of a Python dict: the key and the repr of the value
Entry(key, repr) == [key |-> key, repr |-> repr]

ConditionWords == {"if", "when", "while", "until", "greater", "less", "equal", "above", "below"}
ActionWords == {"turn", "start", "stop", "enable", "disable", "activate", "deactivate", "open", "close"}
SensorWords == {"temperature", "pressure", "level", "flow", "sensor", "input", "feedback"}
ActuatorWords == {"motor", "pump", "valve", "heater", "output", "actuator", "drive"}
SafetyWords == {"emergency", "stop", "safety", "interlock", "fail", "alarm"}

HIGH_WORDS == 50
MEDIUM_WORDS == 20

preprocess_input(text) ==
    IF text = "" \/ Strip(text) = ""
    THEN <<Entry("word_count", "0"), Entry("complexity", "'none'")>>
    ELSE LET lowered == Lower(text)
             words == WordCount(text)
         IN  <<Entry("word_count", IntStr(words)),
               Entry("has_conditions", BoolRepr(WordSearch(ConditionWords, lowered))),
               Entry("has_actions", BoolRepr(WordSearch(ActionWords, lowered))),
               Entry("has_sensors", BoolRepr(WordSearch(SensorWords, lowered))),
               Entry("has_actuators", BoolRepr(WordSearch(ActuatorWords, lowered))),
               Entry("has_safety", BoolRepr(WordSearch(SafetyWords, lowered))),
               Entry("complexity",
                     IF words > HIGH_WORDS THEN "'high'"
                     ELSE IF words > MEDIUM_WORDS THEN "'medium'" ELSE "'low'")>>

RECURSIVE DictItems(_, _)
DictItems(d, i) ==
    IF i > Len(d) THEN ""
    ELSE (IF i > 1 THEN ", " ELSE "") \o "'" \o d[i].key \o "': " \o d[i].repr
         \o DictItems(d, i + 1)

\* str(d) of a dict, as the f-string of the clarification prompt formats it
DictStr(d) == "{" \o DictItems(d, 1) \o "}"

MIN_INPUT_LENGTH == 10
CONFIDENCE_TERMS == 5

SafetyKeywords == {"emergency", "stop", "safety", "interlock", "fail"}
PlcTerms == {"input", "output", "timer", "counter", "analog", "digital", "sensor",
             "actuator", "motor", "valve", "temperature", "pressure"}

\* confidence is found_terms / 5 capped at 1.0, kept here as the number of fifths
validate_plc_requirements(text) ==
    IF Len(Strip(text)) < MIN_INPUT_LENGTH
    THEN [is_valid |-> FALSE,
          warnings |-> <<"Input too short for meaningful PLC logic">>,
          suggestions |-> <<>>,
          confidence |-> 0]
    ELSE LET lowered == Lower(text)
             found_terms == Cardinality({t \in PlcTerms : IsSubstr(t, lowered)})
         IN  [is_valid |-> TRUE,
              warnings |-> <<>>,
              suggestions |-> IF \E k \in SafetyKeywords : IsSubstr(k, lowered)
                              THEN <<>>
                              ELSE <<"Consider adding safety interlocks">>,
              confidence |-> IF found_terms < CONFIDENCE_TERMS THEN found_terms
                             ELSE CONFIDENCE_TERMS]

-----------------------------------------------------------------------------
(* utils.py: extract_first_code_block                                      *)

\* the pattern the source searches for: six backticks in a row
SIX_BACKTICKS == FENCE \o FENCE

\* The pattern has no capture group, so m.group(1) raises IndexError ("no
\* such group") whenever the pattern matches; otherwise the function returns
\* None.  raises tells that the call ended in that exception.
\* fault variant of the extractor: a text in which the pattern is not found
\* is returned whole, stripped, instead of None
extract_or_whole_text(text) ==
    IF text = "" THEN [raises |-> FALSE, value |-> None]
    ELSE IF IsSubstr(SIX_BACKTICKS, text)
         THEN [raises |-> TRUE, value |-> None]
         ELSE [raises |-> FALSE, value |-> Some(Strip(text))]

extract_first_code_block(text) ==
    IF text = "" THEN [raises |-> FALSE, value |-> None]
    ELSE IF IsSubstr(SIX_BACKTICKS, text)
         THEN [raises |-> TRUE, value |-> None]
         ELSE [raises |-> FALSE, value |-> None]

\* the Python expression: a or b, for an optional string a and a string b
OrElse(a, b) == IF Truthy(a) THEN a.v ELSE b

-----------------------------------------------------------------------------
(* restapp.py: extract_first_code_block, the extractor of the single-file  *)
(* variant of the application, whose pattern is                            *)
(* FENCE [a-zA-Z0-9_+\-]* \n (.*?) FENCE                                   *)

TagChars == WordChars \cup {"+", "-"}

\* the positions where a fence starts
FenceStarts(text) == {i \in 1..(Len(text) - 2) : SubSeq(text, i, i + 2) = FENCE}

\* for a fence starting at i: the position of the newline that ends its
\* language tag, 0 when something other than a newline follows the tag
TagEnd(text, i) ==
    LET stops == {j \in (i + 3)..Len(text) : Char(text, j) \notin TagChars} IN
    IF stops = {} THEN 0
    ELSE IF Char(text, SetMin(stops)) = "\n" THEN SetMin(stops) ELSE 0

\* the fences at which the whole pattern matches
OpeningFences(text) ==
    {i \in FenceStarts(text) :
        /\ TagEnd(text, i) # 0
        /\ \E k \in FenceStarts(text) : k > TagEnd(text, i)}

\* fault variant of the extractor: the fences of the pattern are optional,
\* so that the first line of a text without a fence is taken for a language
\* tag and the rest for the block
extract_with_optional_fences(text) ==
    IF text = "" THEN None
    ELSE IF OpeningFences(text) # {}
    THEN LET i == SetMin(OpeningFences(text))
             body == TagEnd(text, i) + 1
             closing == SetMin({k \in FenceStarts(text) : k >= body})
         IN  Some(Strip(SubSeq(text, body, closing - 1)))
    ELSE LET stops == {j \in 1..Len(text) : Char(text, j) \notin TagChars} IN
         IF stops # {} /\ Char(text, SetMin(stops)) = "\n"
         THEN Some(Strip(SubSeq(text, SetMin(stops) + 1, Len(text))))
         ELSE None

restapp_extract_first_code_block(text) ==
    IF text = "" \/ OpeningFences(text) = {} THEN None
    ELSE LET i == SetMin(OpeningFences(text))
             body == TagEnd(text, i) + 1
             closing == SetMin({k \in FenceStarts(text) : k >= body})
         IN  Some(Strip(SubSeq(text, body, closing - 1)))

-----------------------------------------------------------------------------
(* utils.py: load_kb, ensure_kb_loaded, retrieve_kb, compose_rag_context   *)

\* the end of the match of \n\s*\n that starts at the newline s[j]: the last
\* newline of the whitespace run that follows it, 0 when there is none
BlankLineEnd(s, j) ==
    LET run == {k \in (j + 1)..Len(s) : \A m \in (j + 1)..k : IsSpace(Char(s, m))}
        ends == {k \in run : Char(s, k) = "\n"}
    IN  IF ends = {} THEN 0 ELSE SetMax(ends)

\* the newlines at or after from where a match of \n\s*\n starts
BlankLineStarts(s, from) ==
    {j \in from..Len(s) : Char(s, j) = "\n" /\ BlankLineEnd(s, j) # 0}

RECURSIVE SplitFrom(_, _)
SplitFrom(s, start) ==
    IF BlankLineStarts(s, start) = {} THEN <<SubSeq(s, start, Len(s))>>
    ELSE LET j == SetMin(BlankLineStarts(s, start)) IN
         <<SubSeq(s, start, j - 1)>> \o SplitFrom(s, BlankLineEnd(s, j) + 1)

\* re.split(r"\n\s*\n", text)
SplitBlankLines(text) == SplitFrom(text, 1)

\* fault variant of the chunk filter: the pieces are stripped and none is
\* discarded
strip_without_filter(pieces) == [i \in 1..Len(pieces) |-> Strip(pieces[i])]

\* [c.strip() for c in pieces if c.strip()]
StrippedChunks(pieces) ==
    LET F[i \in 0..Len(pieces)] ==
            IF i = 0 THEN <<>>
            ELSE IF Strip(pieces[i]) # "" THEN Append(F[i - 1], Strip(pieces[i]))
                 ELSE F[i - 1]
    IN  F[Len(pieces)]

\* A file holds bytes.  BAD_BYTE stands for a byte that is not valid UTF-8;
\* every other character of data stands for the bytes that encode it.
BAD_BYTE == "^"

RECURSIVE DecodeFrom(_, _)
DecodeFrom(data, start) ==
    LET Rest(bad) ==
            IF bad = {} THEN SubSeq(data, start, Len(data))
            ELSE SubSeq(data, start, SetMin(bad) - 1) \o DecodeFrom(data, SetMin(bad) + 1)
    IN  Rest({j \in start..Len(data) : Char(data, j) = BAD_BYTE})

\* p.read_text(encoding="utf-8", errors="ignore"): the bytes that do not
\* decode are dropped, the others are kept
read_text(data) == DecodeFrom(data, 1)

\* the items one file contributes; a file whose read raises is skipped
FileItems(file) ==
    IF ~file.readable THEN <<>>
    ELSE LET Enumerate(chunks) ==
                 [i \in 1..Len(chunks) |->
                     [path |-> file.path, chunk_id |-> i - 1, content |-> chunks[i]]]
         IN  Enumerate(StrippedChunks(SplitBlankLines(read_text(file.data))))

load_kb(dir) ==
    IF ~dir.exists THEN <<>>
    ELSE LET F[i \in 0..Len(dir.files)] ==
                 IF i = 0 THEN <<>> ELSE F[i - 1] \o FileItems(dir.files[i])
         IN  F[Len(dir.files)]

\* kb_index is None until the first load
NoIndex == [some |-> FALSE, v |-> <<>>]

\* fault variant of ensure_kb_loaded: the index is loaded on every call
always_reload(ss, dir) ==
    [ss EXCEPT !.kb_index = [some |-> TRUE, v |-> load_kb(dir)]]

\* fault variant of ensure_kb_loaded: the test is on the truth value of
\* kb_index, so that an empty index counts as not loaded
reload_when_empty(ss, dir) ==
    IF ~ss.kb_index.some \/ ss.kb_index.v = <<>>
    THEN [ss EXCEPT !.kb_index = [some |-> TRUE, v |-> load_kb(dir)]]
    ELSE ss

ensure_kb_loaded(ss, dir) ==
    IF ~ss.kb_index.some
    THEN [ss EXCEPT !.kb_index = [some |-> TRUE, v |-> load_kb(dir)]]
    ELSE ss

RECURSIVE TokensFrom(_, _)
TokensFrom(s, from) ==
    LET starts == {i \in from..Len(s) : IsWordChar(Char(s, i))} IN
    IF starts = {} THEN <<>>
    ELSE LET i == SetMin(starts)
             stop == SetMin({k \in (i + 1)..(Len(s) + 1) :
                                k > Len(s) \/ ~IsWordChar(Char(s, k))})
         IN  <<SubSeq(s, i, stop - 1)>> \o TokensFrom(s, stop)

\* re.findall(r"[a-zA-Z0-9_]+", s)
FindTokens(s) == TokensFrom(s, 1)

RECURSIVE CountFrom(_, _, _)
CountFrom(t, s, from) ==
    LET found == {i \in from..(Len(s) - Len(t) + 1) : SubSeq(s, i, i + Len(t) - 1) = t} IN
    IF found = {} THEN 0 ELSE 1 + CountFrom(t, s, SetMin(found) + Len(t))

\* s.count(t) for a non-empty t: non-overlapping occurrences, left to right
StrCount(s, t) == CountFrom(t, s, 1)

\* sum(content_l.count(t) for t in toks)
Score(item, toks) ==
    LET content_l == Lower(item.content)
        F[i \in 0..Len(toks)] ==
            IF i = 0 THEN 0 ELSE F[i - 1] + StrCount(content_l, toks[i])
    IN  F[Len(toks)]

RECURSIVE sort_unstable(_)
\* fault variant of the sort: among equal scores the later entry comes first
sort_unstable(scores) ==
    IF scores = <<>> THEN <<>>
    ELSE LET Pick(last) ==
                 <<scores[last]>>
                 \o sort_unstable(SubSeq(scores, 1, last - 1)
                                  \o SubSeq(scores, last + 1, Len(scores)))
             Best(best) == SetMax({i \in 1..Len(scores) : scores[i].score = best})
         IN  Pick(Best(SetMax({scores[i].score : i \in 1..Len(scores)})))

RECURSIVE SortByScoreDesc(_)
\* list.sort(key=score, reverse=True): stable, equal scores keep their order
SortByScoreDesc(scores) ==
    IF scores = <<>> THEN <<>>
    ELSE LET best == SetMax({scores[i].score : i \in 1..Len(scores)})
             first == SetMin({i \in 1..Len(scores) : scores[i].score = best})
         IN  <<scores[first]>>
             \o SortByScoreDesc(SubSeq(scores, 1, first - 1)
                                \o SubSeq(scores, first + 1, Len(scores)))

\* the Python slice seq[:n]
Slice(seq, n) ==
    IF n >= 0 THEN SubSeq(seq, 1, IF n < Len(seq) THEN n ELSE Len(seq))
    ELSE SubSeq(seq, 1, Len(seq) + n)

TOP_K == 4

\* fault variant of the retrieval: entries of score 0 are kept
retrieve_keeping_zero_scores(kb_index, query, top_k) ==
    LET Items(sorted) == [i \in 1..Len(sorted) |-> sorted[i].item]
        Hits(toks) ==
            IF toks = <<>> THEN <<>>
            ELSE Items(Slice(SortByScoreDesc(
                     [i \in 1..Len(kb_index) |->
                         [score |-> Score(kb_index[i], toks), item |-> kb_index[i]]]),
                     top_k))
    IN  IF kb_index = <<>> THEN <<>> ELSE Hits(FindTokens(Lower(query)))

\* the hits of retrieve_kb over a loaded index
RetrieveHits(kb_index, query, top_k) ==
    LET Scored(item, score) ==
            IF score # 0 THEN <<[score |-> score, item |-> item]>> ELSE <<>>
        Items(sorted) == [i \in 1..Len(sorted) |-> sorted[i].item]
        Hits(toks) ==
            IF toks = <<>> THEN <<>>
            ELSE LET F[i \in 0..Len(kb_index)] ==
                         IF i = 0 THEN <<>>
                         ELSE F[i - 1] \o Scored(kb_index[i], Score(kb_index[i], toks))
                 IN  Items(Slice(SortByScoreDesc(F[Len(kb_index)]), top_k))
    IN  IF kb_index = <<>> THEN <<>> ELSE Hits(FindTokens(Lower(query)))

\* retrieve_kb: the session after ensure_kb_loaded, and the hits
retrieve_kb(ss, dir, query, top_k) ==
    LET Retrieve(loaded) ==
            [ss |-> loaded, hits |-> RetrieveHits(loaded.kb_index.v, query, top_k)]
    IN  Retrieve(ensure_kb_loaded(ss, dir))

RECURSIVE JoinBlocks(_, _)
JoinBlocks(hits, i) ==
    IF i > Len(hits) THEN ""
    ELSE (IF i > 1 THEN "\n\n" ELSE "")
         \o "Source: " \o hits[i].path \o "#" \o IntStr(hits[i].chunk_id)
         \o "\n" \o hits[i].content
         \o JoinBlocks(hits, i + 1)

\* compose_rag_context: the session after the retrieval, and the context text
compose_rag_context(ss, dir, query, top_k) ==
    LET Compose(r) ==
            [ss |-> r.ss, text |-> IF r.hits = <<>> THEN "" ELSE JoinBlocks(r.hits, 1)]
    IN  Compose(retrieve_kb(ss, dir, query, top_k))

-----------------------------------------------------------------------------
(* textwrap.dedent, as handle_validate_and_simulate uses it                *)

RECURSIVE LinesFrom(_, _)
LinesFrom(s, start) ==
    LET newlines == {j \in start..Len(s) : Char(s, j) = "\n"} IN
    IF newlines = {} THEN <<SubSeq(s, start, Len(s))>>
    ELSE <<SubSeq(s, start, SetMin(newlines) - 1)>> \o LinesFrom(s, SetMin(newlines) + 1)

\* the lines of a text, without their newlines
Lines(s) == LinesFrom(s, 1)

IsIndentChar(c) == c \in {" ", "\t"}

\* a line made of spaces and tabs only
IsBlankLine(line) == \A i \in 1..Len(line) : IsIndentChar(Char(line, i))

\* the leading run of spaces and tabs of a line
LeadingWhitespace(line) ==
    SubSeq(line, 1, SetMax({n \in 0..Len(line) : \A i \in 1..n : IsIndentChar(Char(line, i))}))

\* the longest prefix common to a non-empty set of strings
CommonPrefix(S) ==
    LET x == CHOOSE y \in S : TRUE
        n == SetMax({k \in 0..Len(x) : \A y \in S : SubSeq(y, 1, k) = SubSeq(x, 1, k)})
    IN  SubSeq(x, 1, n)

RECURSIVE JoinLines(_, _)
JoinLines(lines, i) ==
    IF i > Len(lines) THEN ""
    ELSE (IF i > 1 THEN "\n" ELSE "") \o lines[i] \o JoinLines(lines, i + 1)

\* textwrap.dedent: whitespace-only lines are emptied, and the whitespace
\* prefix common to the other lines is removed from each of them
Dedent(text) ==
    LET Indents(lines) ==
            {LeadingWhitespace(lines[i]) :
                i \in {k \in 1..Len(lines) : ~IsBlankLine(lines[k])}}
        Margin(indents) == IF indents = {} THEN "" ELSE CommonPrefix(indents)
        Cut(lines, margin) ==
            [i \in 1..Len(lines) |->
                IF IsBlankLine(lines[i]) THEN ""
                ELSE SubSeq(lines[i], Len(margin) + 1, Len(lines[i]))]
        DedentLines(lines) == JoinLines(Cut(lines, Margin(Indents(lines))), 1)
    IN  DedentLines(Lines(text))

-----------------------------------------------------------------------------
(* plc_session.py: PLCSessionState.initialize                              *)

\* context_info, a Python dict: its entries in insertion order
EmptyDict == <<>>
DictSet(d, key, value) ==
    IF \E i \in 1..Len(d) : d[i].key = key
    THEN [i \in 1..Len(d) |-> IF d[i].key = key THEN [key |-> key, value |-> value]
                                ELSE d[i]]
    ELSE Append(d, [key |-> key, value |-> value])

initialize ==
    [generated_code |-> None,
     generated_flowchart |-> None,
     generated_hmi |-> None,
     validation_report |-> None,
     simulation_report |-> None,
     last_prompt |-> "",
     conversation_history |-> <<>>,
     clarification_needed |-> FALSE,
     clarification_question |-> "",
     context_info |-> EmptyDict,
     kb_index |-> NoIndex,
     use_rag |-> TRUE,
     multilingual |-> TRUE,
     code_versions |-> <<>>,
     recognized_text |-> ""]

-----------------------------------------------------------------------------
(* The environment: the capability behind each agent, the kb directory     *)

Succeeds(text) == [i \in 1..MAX_ATTEMPTS |-> Return(text)]
AlwaysFails ==
    [i \in 1..MAX_ATTEMPTS |-> Raise(IF i = MAX_ATTEMPTS THEN "rate limit" ELSE "timeout")]

\* the capability raises the same exception, with this message, every time
FailsWith(message) == [i \in 1..MAX_ATTEMPTS |-> Raise(message)]

FencedCode == FENCE \o "st\nX := 1;\n" \o FENCE

\* agents.py: an agent is modelled by the behaviours its capability may show
\* during one stage run
make_language_agent == {Succeeds("switch the pump on"), AlwaysFails}
make_clarification_agent ==
    {Succeeds("Input is clear: Clear_Input"), Succeeds("Which pump?"), AlwaysFails,
     FailsWith("rejected output: CLEAR_INPUT")}
make_enhanced_code_agent ==
    {Succeeds(FencedCode), Succeeds(""), Succeeds(SIX_BACKTICKS), AlwaysFails}
make_enhanced_flow_agent == {Succeeds("graph TD; A-->B"), AlwaysFails}
make_hmi_agent ==
    {Succeeds(FENCE \o "html\n<div/>\n" \o FENCE), Succeeds(SIX_BACKTICKS), AlwaysFails}
make_validation_agent == {Succeeds("VALID CODE"), AlwaysFails}
make_simulation_agent == {Succeeds("| scenario | result |"), AlwaysFails}

\* the runs safe_agent_run(agent, prompt, operation_name) may make
AgentRuns(agent, operation_name) ==
    {safe_agent_run(script, operation_name) : script \in agent}

NoDir == [exists |-> FALSE, files |-> <<>>]
NotesDir ==
    [exists |-> TRUE,
     files |-> <<[path |-> "notes.txt", readable |-> TRUE,
                  data |-> "Motor Start\n\nPressure Safety\n \nPump on delay\n"]>>]

-----------------------------------------------------------------------------
(* handlers.py.  A handler is the set of results it may leave, one for     *)
(* each behaviour of the capabilities it calls.                            *)

\* one stage invocation: the label, the prompt sent, the text the runner
\* returned, and whether that text is the runner's error text
Call(stage, prompt, run) ==
    [stage |-> stage, prompt |-> prompt, text |-> run.text, failed |-> run.failed]

\* what a handler leaves behind: the session, the stage invocations it made,
\* the messages it showed, and how it ended ("returned", "rerun" for
\* st.rerun(), "raised" for an exception that left the handler)
Result(ss, stage_calls, messages, ending) ==
    [ss |-> ss, calls |-> stage_calls, ui |-> messages, outcome |-> ending]

\* the timestamp of a version (the wall clock) is left out
save_code_version(ss, description) ==
    IF Truthy(ss.generated_code)
    THEN [ss EXCEPT !.code_versions =
             Append(@, [code |-> ss.generated_code.v,
                        description |-> description,
                        prompt |-> ss.last_prompt])]
    ELSE ss

\* the retrieval step shared by the generate handlers: the session after it
\* and the prompt with the reference context appended when there is one
\* fault variant of the retrieval step: the context section is appended
\* whenever grounding is enabled, even when the composed context is empty
enhance_with_empty_header(ss, dir, text) ==
    LET WithContext(rag) ==
            [ss |-> rag.ss,
             prompt |-> text \o "\n\nReference Context (from KB):\n" \o rag.text]
    IN  IF ss.use_rag THEN WithContext(compose_rag_context(ss, dir, text, TOP_K))
        ELSE [ss |-> ss, prompt |-> text]

Enhance(ss, dir, text) ==
    LET WithContext(rag) ==
            [ss |-> rag.ss,
             prompt |-> IF rag.text # ""
                        THEN text \o "\n\nReference Context (from KB):\n" \o rag.text
                        ELSE text]
    IN  WithContext(IF ss.use_rag THEN compose_rag_context(ss, dir, text, TOP_K)
                ELSE [ss |-> ss, text |-> ""])

\* handle_generate_code after the code-generation stage has run
StoreCode(ss, normalized, run, stage_calls, messages) ==
    LET Logged(s3) ==
            [s3 EXCEPT !.conversation_history =
                Append(@, "Generated code for: " \o normalized)]
        Store(block) ==
            IF block.raises
            THEN Result(ss, stage_calls, messages \o run.ui, "raised")
            ELSE Result(Logged(save_code_version(
                            [ss EXCEPT !.generated_code =
                                Some(OrElse(block.value, run.text))],
                            "Generated from prompt")),
                        stage_calls,
                        messages \o run.ui
                            \o <<Msg("success", "Code generated successfully!")>>,
                        "returned")
    IN  Store(extract_first_code_block(run.text))

\* handle_generate_code from the assignment of last_prompt on
GenerateFrom(ss, dir, normalized, stage_calls, messages) ==
    LET Generate(enhanced) ==
            {StoreCode(enhanced.ss, normalized, run,
                       Append(stage_calls, Call("Code generation", enhanced.prompt, run)),
                       messages)
                : run \in AgentRuns(make_enhanced_code_agent, "Code generation")}
    IN  Generate(Enhance([ss EXCEPT !.last_prompt = normalized], dir, normalized))

\* the clarification gate of handle_generate_code: for each way it can go,
\* whether the handler goes on, and the session, the invocations and the
\* messages so far
ClarificationGate(ss, normalized, stage_calls, messages) ==
    IF ~ss.clarification_needed
    THEN LET Gate(context_prompt) ==
                 {[proceed |-> IsSubstr("CLEAR_INPUT", Upper(run.text)),
                   ss |-> IF ~IsSubstr("CLEAR_INPUT", Upper(run.text))
                          THEN [ss EXCEPT !.clarification_needed = TRUE,
                                          !.clarification_question = run.text]
                          ELSE ss,
                   calls |-> Append(stage_calls,
                                    Call("Requirements analysis", context_prompt, run)),
                   ui |-> messages \o run.ui]
                     : run \in AgentRuns(make_clarification_agent, "Requirements analysis")}
         IN  Gate("User input: " \o normalized
                  \o "\n\nInput analysis: " \o DictStr(preprocess_input(normalized)))
    ELSE {[proceed |-> TRUE, ss |-> ss, calls |-> stage_calls, ui |-> messages]}

\* handle_generate_code from the clarification gate on
ClarifyFrom(ss, dir, normalized, stage_calls, messages) ==
    UNION {IF gate.proceed
           THEN GenerateFrom(gate.ss, dir, normalized, gate.calls, gate.ui)
           ELSE {Result(gate.ss, gate.calls, gate.ui, "rerun")}
              : gate \in ClarificationGate(ss, normalized, stage_calls, messages)}

\* the messages shown for the warnings and the suggestions of the validation
\* (the emoji that opens each suggestion is left out)
Warnings(texts) == [i \in 1..Len(texts) |-> Msg("warning", texts[i])]
Suggestions(texts) == [i \in 1..Len(texts) |-> Msg("info", "Suggestion: " \o texts[i])]

\* the normalization step of handle_generate_code: the text it leaves in
\* normalized, with the invocation and the messages it made
Normalize(ss, prompt) ==
    IF ss.multilingual
    THEN {[text |-> run.text,
           calls |-> <<Call("Language normalization", prompt, run)>>,
           ui |-> run.ui]
             : run \in AgentRuns(make_language_agent, "Language normalization")}
    ELSE {[text |-> prompt, calls |-> <<>>, ui |-> <<>>]}

handle_generate_code(ss, dir, prompt) ==
    LET Checked(validation) ==
            IF ~validation.is_valid
            THEN {Result(ss, <<>>, Warnings(validation.warnings), "returned")}
            ELSE UNION {ClarifyFrom(ss, dir, normalized.text, normalized.calls,
                                    Suggestions(validation.suggestions)
                                        \o normalized.ui)
                           : normalized \in Normalize(ss, prompt)}
    IN  IF Strip(prompt) = ""
        THEN {Result(ss, <<>>, <<Msg("warning", "Please enter some control logic.")>>,
                     "returned")}
        ELSE Checked(validate_plc_requirements(prompt))

\* fault variant of handle_generate_flowchart: the guard on the blank input
\* is missing
flowchart_unguarded(ss, dir, prompt) ==
    LET Generate(enhanced) ==
            {Result([enhanced.ss EXCEPT
                        !.generated_flowchart = Some(run.text),
                        !.conversation_history =
                            Append(@, "Generated flowchart for: " \o prompt)],
                    <<Call("Flowchart generation", enhanced.prompt, run)>>,
                    run.ui \o <<Msg("success", "Flowchart generated successfully!")>>,
                    "returned")
                : run \in AgentRuns(make_enhanced_flow_agent, "Flowchart generation")}
    IN  Generate(Enhance([ss EXCEPT !.last_prompt = prompt], dir, prompt))

handle_generate_flowchart(ss, dir, prompt) ==
    LET Generate(enhanced) ==
            {Result([enhanced.ss EXCEPT
                        !.generated_flowchart = Some(run.text),
                        !.conversation_history =
                            Append(@, "Generated flowchart for: " \o prompt)],
                    <<Call("Flowchart generation", enhanced.prompt, run)>>,
                    run.ui \o <<Msg("success", "Flowchart generated successfully!")>>,
                    "returned")
                : run \in AgentRuns(make_enhanced_flow_agent, "Flowchart generation")}
    IN  IF Strip(prompt) = ""
        THEN {Result(ss, <<>>, <<Msg("warning", "Please enter some control logic.")>>,
                     "returned")}
        ELSE Generate(Enhance([ss EXCEPT !.last_prompt = prompt], dir, prompt))

\* an st.rerun() or an exception in handle_generate_code ends the script run
handle_generate_both(ss, dir, prompt) ==
    UNION {
      IF code.outcome = "returned" /\ ~code.ss.clarification_needed
      THEN {Result(flow.ss, code.calls \o flow.calls, code.ui \o flow.ui, flow.outcome)
               : flow \in handle_generate_flowchart(code.ss, dir, prompt)}
      ELSE {code}
      : code \in handle_generate_code(ss, dir, prompt)}

handle_generate_hmi(ss, dir, prompt) ==
    LET Store(after, stage_calls, run, html_block) ==
            IF html_block.raises
            THEN Result(after, stage_calls, run.ui, "raised")
            ELSE Result([after EXCEPT !.generated_hmi =
                            Some(OrElse(html_block.value,
                                        "<div>HMI generation failed.</div>"))],
                        stage_calls, run.ui \o <<Msg("success", "HMI generated!")>>,
                        "returned")
        Generate(enhanced) ==
            {Store(enhanced.ss, <<Call("HMI generation", enhanced.prompt, run)>>, run,
                   extract_first_code_block(run.text))
                : run \in AgentRuns(make_hmi_agent, "HMI generation")}
    IN  IF Strip(prompt) = ""
        THEN {Result(ss, <<>>, <<Msg("warning", "Please enter some control logic.")>>,
                     "returned")}
        ELSE Generate(Enhance(ss, dir, prompt))

INDENT == "            "
CLOSING_INDENT == "        "

\* the f-string of the simulation prompt, before textwrap.dedent
SimPromptTemplate(last_prompt, generated_code) ==
    "\n" \o INDENT \o "Requirements (for context): " \o last_prompt
    \o "\n" \o INDENT \o "Code under test:"
    \o "\n" \o INDENT \o FENCE
    \o "\n" \o INDENT \o generated_code
    \o "\n" \o INDENT \o FENCE
    \o "\n" \o INDENT \o "Create a comprehensive table of test scenarios "
    \o "including normal operation, edge cases, and failure modes."
    \o "\n" \o CLOSING_INDENT

\* fault variant of the validate-and-simulate body: a failed validation ends
\* the handler before the simulation stage
simulate_only_if_validated(ss) ==
    LET sim_prompt == Dedent(SimPromptTemplate(ss.last_prompt, ss.generated_code.v)) IN
    UNION {
      IF validation.failed
      THEN {Result([ss EXCEPT !.validation_report = Some(validation.text)],
                   <<Call("Code validation", ss.generated_code.v, validation)>>,
                   validation.ui, "returned")}
      ELSE {Result([ss EXCEPT !.validation_report = Some(validation.text),
                              !.simulation_report = Some(simulation.text)],
                   <<Call("Code validation", ss.generated_code.v, validation),
                     Call("Logic simulation", sim_prompt, simulation)>>,
                   validation.ui \o simulation.ui, "returned")
               : simulation \in AgentRuns(make_simulation_agent, "Logic simulation")}
      : validation \in AgentRuns(make_validation_agent, "Code validation")}

\* handle_validate_and_simulate once the code artifact is known to exist
ValidateAndSimulate(ss) ==
    LET sim_prompt == Dedent(SimPromptTemplate(ss.last_prompt, ss.generated_code.v)) IN
    {Result([ss EXCEPT !.validation_report = Some(validation.text),
                       !.simulation_report = Some(simulation.text)],
            <<Call("Code validation", ss.generated_code.v, validation),
              Call("Logic simulation", sim_prompt, simulation)>>,
            validation.ui \o simulation.ui,
            "returned")
        : validation \in AgentRuns(make_validation_agent, "Code validation"),
          simulation \in AgentRuns(make_simulation_agent, "Logic simulation")}

\* fault variant of handle_validate_and_simulate: the guard on the code
\* artifact is missing
validate_unguarded(ss) ==
    LET code == IF ss.generated_code.some THEN ss.generated_code.v ELSE "None"
        sim_prompt == Dedent(SimPromptTemplate(ss.last_prompt, code))
    IN  {Result([ss EXCEPT !.validation_report = Some(validation.text),
                           !.simulation_report = Some(simulation.text)],
                <<Call("Code validation", code, validation),
                  Call("Logic simulation", sim_prompt, simulation)>>,
                validation.ui \o simulation.ui, "returned")
            : validation \in AgentRuns(make_validation_agent, "Code validation"),
              simulation \in AgentRuns(make_simulation_agent, "Logic simulation")}

handle_validate_and_simulate(ss) ==
    IF ~Truthy(ss.generated_code)
    THEN {Result(ss, <<>>, <<Msg("warning", "Please generate code first!")>>,
                 "returned")}
    ELSE ValidateAndSimulate(ss)

-----------------------------------------------------------------------------
(* main.py: the clarification buttons and the sidebar                      *)

\* fault variant of the Clear Clarification button: the flag is reset and
\* the question is left in place
clear_flag_only(ss) ==
    Result([ss EXCEPT !.clarification_needed = FALSE], <<>>, <<>>, "rerun")

clear_clarification(ss) ==
    Result([ss EXCEPT !.clarification_needed = FALSE,
                      !.clarification_question = ""],
           <<>>, <<>>, "rerun")

proceed_with_clarification(ss, clarification_response) ==
    IF Strip(clarification_response) # ""
    THEN Result([ss EXCEPT
                    !.context_info = DictSet(@, "clarification", clarification_response),
                    !.conversation_history =
                        @ \o <<"Q: " \o ss.clarification_question,
                               "A: " \o clarification_response>>,
                    !.clarification_needed = FALSE,
                    !.clarification_question = ""],
                <<>>,
                <<Msg("success", "Clarification received! You can now generate code.")>>,
                "rerun")
    ELSE Result(ss, <<>>, <<>>, "returned")

-----------------------------------------------------------------------------
(* main.py: the code refinement section                                    *)

\* the "PLC Code Optimizer" agent built at main.py 323-334
make_refinement_agent ==
    {Succeeds("Improved:\n" \o FENCE \o "st\nX := 1; (* interlock *)\n" \o FENCE),
     Succeeds("No change is needed."), Succeeds(SIX_BACKTICKS), AlwaysFails}

\* the Apply Refinement button (main.py 317-344) once the request is known
\* not to be blank
ApplyRefinement(ss, refinement_request) ==
    LET refinement_prompt ==
            "Original code:\n" \o ss.generated_code.v
                \o "\n\nRefinement request: " \o refinement_request
        Refined(run, stage_calls, refined_code) ==
            IF refined_code.raises
            THEN Result(ss, stage_calls, run.ui, "raised")
            ELSE IF Truthy(refined_code.value)
            THEN Result([save_code_version(ss, "Before refinement")
                            EXCEPT !.generated_code = Some(refined_code.value.v)],
                        stage_calls,
                        run.ui \o <<Msg("success", "Code refined successfully!")>>,
                        "rerun")
            ELSE Result(ss, stage_calls, run.ui, "returned")
    IN  {Refined(run, <<Call("Code refinement", refinement_prompt, run)>>,
                 extract_first_code_block(run.text))
            : run \in AgentRuns(make_refinement_agent, "Code refinement")}

apply_refinement(ss, refinement_request) ==
    IF Strip(refinement_request) = ""
    THEN {Result(ss, <<>>, <<>>, "returned")}
    ELSE ApplyRefinement(ss, refinement_request)

-----------------------------------------------------------------------------
(* The session as a state machine: one action per button                   *)

\* the number of button presses followed in one session
MaxOps == 3

\* what the user may have typed in the text area
Prompts == {"  ", "pump on", "turn on pump"}

\* what the user may have typed as the answer to a clarification
Answers == {"", "the feed pump"}

NoHits == [done |-> FALSE, v |-> <<>>]
NoCall == [script |-> AlwaysFails, operation_name |-> ""]
NoResult == [done |-> FALSE, text |-> "", invocations |-> 0, failed |-> FALSE]
NoRun == [text |-> "", failed |-> FALSE, ui |-> <<>>]
Idle ==
    [pc |-> "idle", enhanced |-> "", run |-> NoRun, loaded |-> FALSE,
     reads |-> {}, writes |-> {}]
NoTasks == [prompt |-> "", start |-> initialize, flowchart |-> Idle, hmi |-> Idle]
NoExtraction ==
    [text |-> "", variant |-> "", applied |-> 0, raised |-> FALSE, once |-> "", twice |-> ""]

Init ==
    /\ session_state = initialize
    /\ kb_dir = NotesDir
    /\ op = [name |-> "init", input |-> ""]
    /\ calls = <<>>
    /\ ui = <<>>
    /\ outcome = "returned"
    /\ pending_input = None
    /\ steps = 0
    /\ show_refinement = FALSE
    /\ kb_query = ""
    /\ kb_top_k = TOP_K
    /\ kb_hits = NoHits
    /\ runner_call = NoCall
    /\ runner_result = NoResult
    /\ tasks = NoTasks
    /\ extraction = NoExtraction

\* the operation name with input has run and left r
Commit(name, input, r) ==
    /\ steps' = steps + 1
    /\ session_state' = r.ss
    /\ op' = [name |-> name, input |-> input]
    /\ calls' = r.calls
    /\ ui' = r.ui
    /\ outcome' = r.outcome
    /\ pending_input' = IF r.ss.clarification_needed /\ ~session_state.clarification_needed
                        THEN Some(input)
                        ELSE pending_input
    /\ UNCHANGED <<kb_dir, kb_query, kb_top_k, kb_hits, runner_call, runner_result,
                 tasks, extraction, show_refinement>>

GenerateCode ==
    /\ steps < MaxOps
    /\ \E prompt \in Prompts :
        \E r \in handle_generate_code(session_state, kb_dir, prompt) :
            Commit("generate_code", prompt, r)

GenerateFlowchart ==
    /\ steps < MaxOps
    /\ \E prompt \in Prompts :
        \E r \in handle_generate_flowchart(session_state, kb_dir, prompt) :
            Commit("generate_flowchart", prompt, r)

GenerateBoth ==
    /\ steps < MaxOps
    /\ \E prompt \in Prompts :
        \E r \in handle_generate_both(session_state, kb_dir, prompt) :
            Commit("generate_both", prompt, r)

GenerateHmi ==
    /\ steps < MaxOps
    /\ \E prompt \in Prompts :
        \E r \in handle_generate_hmi(session_state, kb_dir, prompt) :
            Commit("generate_hmi", prompt, r)

ValidateSimulate ==
    /\ steps < MaxOps
    /\ \E r \in handle_validate_and_simulate(session_state) :
        Commit("validate_and_simulate", "", r)

\* the two buttons are drawn only while a clarification is pending
ClearClarification ==
    /\ steps < MaxOps
    /\ session_state.clarification_needed
    /\ Commit("clear_clarification", "", clear_clarification(session_state))

ProceedWithClarification ==
    /\ steps < MaxOps
    /\ session_state.clarification_needed
    /\ \E answer \in Answers :
           Commit("proceed_with_clarification", answer,
                  proceed_with_clarification(session_state, answer))

\* the sidebar checkboxes
ToggleRag ==
    /\ steps < MaxOps
    /\ Commit("toggle_use_rag", "",
           Result([session_state EXCEPT !.use_rag = ~@], <<>>, <<>>, "returned"))

ToggleMultilingual ==
    /\ steps < MaxOps
    /\ Commit("toggle_multilingual", "",
           Result([session_state EXCEPT !.multilingual = ~@], <<>>, <<>>, "returned"))

Next ==
    \/ GenerateCode
    \/ GenerateFlowchart
    \/ GenerateBoth
    \/ GenerateHmi
    \/ ValidateSimulate
    \/ ClearClarification
    \/ ProceedWithClarification
    \/ ToggleRag
    \/ ToggleMultilingual

Spec == Init /\ [][Next]_vars

-----------------------------------------------------------------------------
(* The stage runner on its own: safe_agent_run applied to every script     *)

RunnerOutcomes == {Raise("timeout"), Raise("rate limit"),
                   Return("CLEAR_INPUT"), Return(""), Return("X := 1;")}
RunnerScripts == [1..MAX_ATTEMPTS -> RunnerOutcomes]
Labels == {"Language normalization", "Requirements analysis", "Code generation",
           "Flowchart generation", "HMI generation", "Code validation",
           "Logic simulation"}

InitRunner ==
    /\ session_state = initialize
    /\ kb_dir = NoDir
    /\ op = [name |-> "init", input |-> ""]
    /\ calls = <<>>
    /\ ui = <<>>
    /\ outcome = "returned"
    /\ pending_input = None
    /\ steps = 0
    /\ show_refinement = FALSE
    /\ kb_query = ""
    /\ kb_top_k = TOP_K
    /\ kb_hits = NoHits
    /\ runner_call \in [script : RunnerScripts, operation_name : Labels]
    /\ runner_result = NoResult
    /\ tasks = NoTasks
    /\ extraction = NoExtraction

RunStage ==
    /\ ~runner_result.done
    /\ LET run == safe_agent_run(runner_call.script, runner_call.operation_name) IN
       /\ runner_result' = [done |-> TRUE, text |-> run.text,
                            invocations |-> run.invocations, failed |-> run.failed]
       /\ ui' = run.ui
    /\ UNCHANGED <<session_state, kb_dir, op, calls, outcome, pending_input, steps,
                 kb_query, kb_top_k, kb_hits, runner_call, tasks, extraction, show_refinement>>

NextRunner == RunStage

SpecRunner == InitRunner /\ [][NextRunner]_vars

-----------------------------------------------------------------------------
(* The knowledge base on its own: retrieve_kb and the retrieval step of a  *)
(* generate handler, over several directories, queries and top_k           *)

MaxTopK == 2

EmptyDir == [exists |-> TRUE, files |-> <<>>]
ExampleFile ==
    [path |-> "notes.txt", readable |-> TRUE, data |-> "Motor Start\n\nPressure Safety"]
ExampleDir == [exists |-> TRUE, files |-> <<ExampleFile>>]
PumpsDir ==
    [exists |-> TRUE,
     files |-> <<ExampleFile,
                 [path |-> "pumps.txt", readable |-> TRUE,
                  data |-> "Pump A on\n\npump pump\n\nPump B off"]>>]
\* directories whose files are all non-text
BinaryDir ==
    [exists |-> TRUE,
     files |-> <<[path |-> "logo.png", readable |-> TRUE,
                  data |-> "^PNG^\n\n^IHDR pump^"]>>]
NoiseDir ==
    [exists |-> TRUE,
     files |-> <<[path |-> "noise.bin", readable |-> TRUE, data |-> "^^^"],
                 [path |-> "locked.bin", readable |-> FALSE, data |-> "^"]>>]

Dirs == {NoDir, EmptyDir, ExampleDir, NotesDir, PumpsDir, BinaryDir, NoiseDir}
Queries == {"", "?!", "pressure", "pump", "Pump on"}

InitKb ==
    /\ \E use_rag \in BOOLEAN : session_state = [initialize EXCEPT !.use_rag = use_rag]
    /\ kb_dir \in Dirs
    /\ op = [name |-> "init", input |-> ""]
    /\ calls = <<>>
    /\ ui = <<>>
    /\ outcome = "returned"
    /\ pending_input = None
    /\ steps = 0
    /\ show_refinement = FALSE
    /\ kb_query = ""
    /\ kb_top_k = TOP_K
    /\ kb_hits = NoHits
    /\ runner_call = NoCall
    /\ runner_result = NoResult
    /\ tasks = NoTasks
    /\ extraction = NoExtraction

\* a call retrieve_kb(q, k)
KbRetrieve ==
    \E q \in Queries : \E k \in 0..MaxTopK :
        LET Returned(r) ==
                /\ session_state' = r.ss
                /\ kb_query' = q
                /\ kb_top_k' = k
                /\ kb_hits' = [done |-> TRUE, v |-> r.hits]
        IN  /\ Returned(retrieve_kb(session_state, kb_dir, q, k))
            /\ op' = [name |-> "retrieve_kb", input |-> q]
            /\ calls' = <<>>
            /\ ui' = <<>>
            /\ outcome' = "returned"
            /\ UNCHANGED <<kb_dir, pending_input, steps, runner_call, runner_result,
                         tasks, extraction, show_refinement>>

\* Generate HMI, the handler that writes nothing but its artifact and the
\* index, with the query as its input
KbGenerateHmi ==
    \E q \in Queries :
        \E r \in handle_generate_hmi(session_state, kb_dir, q) :
            /\ session_state' = r.ss
            /\ op' = [name |-> "generate_hmi", input |-> q]
            /\ calls' = r.calls
            /\ ui' = r.ui
            /\ outcome' = r.outcome
            /\ UNCHANGED <<kb_dir, pending_input, steps, kb_query, kb_top_k, kb_hits,
                           runner_call, runner_result, tasks, extraction, show_refinement>>

\* the files of the kb directory change on disk
KbDirChanges ==
    /\ \E dir \in Dirs \ {kb_dir} : kb_dir' = dir
    /\ op' = [name |-> "kb_dir_changes", input |-> ""]
    /\ calls' = <<>>
    /\ ui' = <<>>
    /\ outcome' = "returned"
    /\ UNCHANGED <<session_state, pending_input, steps, kb_query, kb_top_k, kb_hits,
                   runner_call, runner_result, tasks, extraction, show_refinement>>

NextKb ==
    \/ KbRetrieve
    \/ KbGenerateHmi
    \/ KbDirChanges

SpecKb == InitKb /\ [][NextKb]_vars

-----------------------------------------------------------------------------
(* handle_generate_flowchart and handle_generate_hmi run as two concurrent *)
(* tasks on one session, statement by statement, in any interleaving.      *)

Fields == DOMAIN initialize

\* the fields whose value differs between two sessions
Changed(old, new) == {f \in Fields : old[f] # new[f]}

\* what one statement of a task leaves: the task and the session
Stepped(task, ss) == [task |-> task, ss |-> ss]

\* the statements of compose_rag_context(prompt) if use_rag else "" and of
\* the agent run that follows, which the two handlers have in common
\* (handlers.py 114-121 and 142-148, kb_loader.py 30-33 and 36-68)
SharedStatement(task, ss, dir, prompt, agent, operation_name) ==
    CASE task.pc = "rag" ->
           {Stepped([task EXCEPT !.pc = IF ss.use_rag THEN "check" ELSE "run",
                                 !.enhanced = prompt,
                                 !.reads = @ \cup {"use_rag"}], ss)}
      [] task.pc = "check" ->
           {Stepped([task EXCEPT !.pc = IF ~ss.kb_index.some THEN "load" ELSE "retrieve",
                                 !.reads = @ \cup {"kb_index"}], ss)}
      [] task.pc = "load" ->
           {Stepped([task EXCEPT !.pc = "retrieve", !.loaded = TRUE],
                    [ss EXCEPT !.kb_index = [some |-> TRUE, v |-> load_kb(dir)]])}
      [] task.pc = "retrieve" ->
           LET Composed(rag) ==
                   {Stepped([task EXCEPT
                               !.pc = "run",
                               !.enhanced =
                                   IF rag.text # ""
                                   THEN prompt \o "\n\nReference Context (from KB):\n"
                                               \o rag.text
                                   ELSE prompt,
                               !.reads = @ \cup {"kb_index"}], ss)}
           IN  Composed(compose_rag_context(ss, dir, prompt, TOP_K))
      [] task.pc = "run" ->
           {Stepped([task EXCEPT !.pc = "store", !.run = run], ss)
               : run \in AgentRuns(agent, operation_name)}
      [] OTHER -> {}

\* fault variant of the HMI task: it records its generation in
\* conversation_history, the log the flowchart task appends to
hmi_logging_to_history(task, ss, dir, prompt) ==
    CASE task.pc = "start" ->
           IF Strip(prompt) = ""
           THEN {Stepped([task EXCEPT !.pc = "done"], ss)}
           ELSE {Stepped([task EXCEPT !.pc = "rag"], ss)}
      [] task.pc = "store" ->
           {Stepped([task EXCEPT !.pc = "done",
                                 !.reads = @ \cup {"conversation_history"}],
                    [ss EXCEPT !.generated_hmi = Some("<div>HMI generation failed.</div>"),
                               !.conversation_history =
                                   Append(@, "Generated HMI for: " \o prompt)])}
      [] OTHER -> SharedStatement(task, ss, dir, prompt, make_hmi_agent, "HMI generation")

\* the next statement of handle_generate_flowchart (handlers.py 105-126)
FlowchartStatement(task, ss, dir, prompt) ==
    CASE task.pc = "start" ->
           IF Strip(prompt) = ""
           THEN {Stepped([task EXCEPT !.pc = "done"], ss)}
           ELSE {Stepped([task EXCEPT !.pc = "rag"], [ss EXCEPT !.last_prompt = prompt])}
      [] task.pc = "store" ->
           {Stepped([task EXCEPT !.pc = "log"],
                    [ss EXCEPT !.generated_flowchart = Some(task.run.text)])}
      [] task.pc = "log" ->
           {Stepped([task EXCEPT !.pc = "done",
                                 !.reads = @ \cup {"conversation_history"}],
                    [ss EXCEPT !.conversation_history =
                                   Append(@, "Generated flowchart for: " \o prompt)])}
      [] OTHER -> SharedStatement(task, ss, dir, prompt,
                                  make_enhanced_flow_agent, "Flowchart generation")

\* the next statement of handle_generate_hmi (handlers.py 136-152)
HmiStatement(task, ss, dir, prompt) ==
    CASE task.pc = "start" ->
           IF Strip(prompt) = ""
           THEN {Stepped([task EXCEPT !.pc = "done"], ss)}
           ELSE {Stepped([task EXCEPT !.pc = "rag"], ss)}
      [] task.pc = "store" ->
           LET Store(html_block) ==
                   IF html_block.raises
                   THEN {Stepped([task EXCEPT !.pc = "raised"], ss)}
                   ELSE {Stepped([task EXCEPT !.pc = "done"],
                                 [ss EXCEPT !.generated_hmi =
                                     Some(OrElse(html_block.value,
                                                 "<div>HMI generation failed.</div>"))])}
           IN  Store(extract_first_code_block(task.run.text))
      [] OTHER -> SharedStatement(task, ss, dir, prompt, make_hmi_agent, "HMI generation")

TaskPrompts == {"  ", "pump on"}
TaskDirs == {NoDir, NotesDir}
Ready == [Idle EXCEPT !.pc = "start"]

\* a session in which nothing or only the index load has happened, and the
\* two buttons pressed with the same input
InitTasks ==
    /\ kb_dir \in TaskDirs
    /\ \E use_rag \in BOOLEAN :
          session_state \in {[initialize EXCEPT !.use_rag = use_rag],
                             ensure_kb_loaded([initialize EXCEPT !.use_rag = use_rag],
                                              kb_dir)}
    /\ \E prompt \in TaskPrompts :
          /\ op = [name |-> "init", input |-> prompt]
          /\ tasks = [prompt |-> prompt, start |-> session_state,
                      flowchart |-> Ready, hmi |-> Ready]
    /\ calls = <<>>
    /\ ui = <<>>
    /\ outcome = "returned"
    /\ pending_input = None
    /\ steps = 0
    /\ show_refinement = FALSE
    /\ kb_query = ""
    /\ kb_top_k = TOP_K
    /\ kb_hits = NoHits
    /\ runner_call = NoCall
    /\ runner_result = NoResult
    /\ extraction = NoExtraction

\* the task has executed one statement and left n; the fields the statement
\* changed are added to the task's writes
TaskStepped(name, n) ==
    /\ session_state' = n.ss
    /\ tasks' = [tasks EXCEPT
                    ![name] = [n.task EXCEPT
                                  !.writes = @ \cup Changed(session_state, n.ss)]]
    /\ op' = [name |-> name, input |-> tasks.prompt]
    /\ UNCHANGED <<kb_dir, calls, ui, outcome, pending_input, steps, kb_query, kb_top_k,
                   kb_hits, runner_call, runner_result, extraction, show_refinement>>

FlowchartTaskStep ==
    \E n \in FlowchartStatement(tasks.flowchart, session_state, kb_dir, tasks.prompt) :
        TaskStepped("flowchart", n)

HmiTaskStep ==
    \E n \in HmiStatement(tasks.hmi, session_state, kb_dir, tasks.prompt) :
        TaskStepped("hmi", n)

NextTasks ==
    \/ FlowchartTaskStep
    \/ HmiTaskStep

SpecTasks == InitTasks /\ [][NextTasks]_vars

-----------------------------------------------------------------------------
(* The code artifact made of a response: extract_first_code_block(response) *)
(* or response, applied to a response and then to its own result.          *)

\* handlers.py 95: code_only = extract_first_code_block(response) or response
code_only(response) ==
    LET Or(block) ==
            [raises |-> block.raises,
             value |-> IF block.raises THEN "" ELSE OrElse(block.value, response)]
    IN  Or(extract_first_code_block(response))

\* restapp.py 353: code_only = extract_first_code_block(content) or content
restapp_code_only(content) ==
    [raises |-> FALSE, value |-> OrElse(restapp_extract_first_code_block(content), content)]

Variants == {"handlers", "restapp"}

CodeOnly(variant, response) ==
    IF variant = "handlers" THEN code_only(response) ELSE restapp_code_only(response)

\* the first match of the fence pattern at or after from: where it starts
\* and the position after its closing fence; start 0 when there is none
FirstBlock(text, from) ==
    LET opening == {i \in OpeningFences(text) :
                       /\ i >= from
                       /\ \E k \in FenceStarts(text) : k > TagEnd(text, i)}
    IN  IF opening = {} THEN [start |-> 0, next |-> 0]
        ELSE LET i == SetMin(opening) IN
             [start |-> i,
              next |-> SetMin({k \in FenceStarts(text) : k > TagEnd(text, i)}) + 3]

\* the number of fenced blocks of a text: the non-overlapping matches of the
\* fence pattern, from left to right
RECURSIVE BlocksFrom(_, _)
BlocksFrom(text, from) ==
    LET Counted(block) ==
            IF block.start = 0 THEN 0 ELSE 1 + BlocksFrom(text, block.next)
    IN  Counted(FirstBlock(text, from))

BlockCount(text) == BlocksFrom(text, 1)

MaxLines == 2

RECURSIVE Statements(_)
Statements(n) == IF n = 0 THEN "" ELSE "X := 1;\n" \o Statements(n - 1)

Leads == {"", "Here is the code:\n", "Use " \o BACKTICK \o "X" \o BACKTICK \o ":\n"}
Tags == {"", "st", "c++"}
Bodies ==
    {Statements(n) : n \in 0..MaxLines}
        \cup {"  X := 1;  ", "BEGIN\nX := 1;\nEND\n",
              "a" \o BACKTICK \o BACKTICK \o "b\n"}
Tails == {"", "\nDone.", FENCE, "\n" \o FENCE \o "py\nprint(1)\n" \o FENCE}

\* what a code-generation stage may answer: text around one fenced block,
\* with a second block or a stray fence after it in some, and answers
\* without any fence
Responses ==
    {lead \o FENCE \o tag \o "\n" \o body \o FENCE \o tail
        : lead \in Leads, tag \in Tags, body \in Bodies, tail \in Tails}
        \cup {"", "X := 1;", "BEGIN\nX := 1;\nEND\n", FENCE \o "st X := 1;" \o FENCE}

InitExtract ==
    /\ \E response \in Responses : extraction = [NoExtraction EXCEPT !.text = response]
    /\ session_state = initialize
    /\ kb_dir = NoDir
    /\ op = [name |-> "init", input |-> ""]
    /\ calls = <<>>
    /\ ui = <<>>
    /\ outcome = "returned"
    /\ pending_input = None
    /\ steps = 0
    /\ show_refinement = FALSE
    /\ kb_query = ""
    /\ kb_top_k = TOP_K
    /\ kb_hits = NoHits
    /\ runner_call = NoCall
    /\ runner_result = NoResult
    /\ tasks = NoTasks

\* the artifact is made of the response
ExtractOnce ==
    /\ extraction.applied = 0
    /\ \E variant \in Variants :
          LET Made(artifact) ==
                  extraction' = [extraction EXCEPT !.variant = variant,
                                                   !.applied = 1,
                                                   !.raised = artifact.raises,
                                                   !.once = artifact.value]
          IN  Made(CodeOnly(variant, extraction.text))
    /\ UNCHANGED <<session_state, kb_dir, op, calls, ui, outcome, pending_input, steps,
                   kb_query, kb_top_k, kb_hits, runner_call, runner_result, tasks, show_refinement>>

\* the artifact is given back to the same normalization
ExtractAgain ==
    /\ extraction.applied = 1
    /\ ~extraction.raised
    /\ LET Made(artifact) ==
               extraction' = [extraction EXCEPT !.applied = 2,
                                                !.raised = artifact.raises,
                                                !.twice = artifact.value]
       IN  Made(CodeOnly(extraction.variant, extraction.once))
    /\ UNCHANGED <<session_state, kb_dir, op, calls, ui, outcome, pending_input, steps,
                   kb_query, kb_top_k, kb_hits, runner_call, runner_result, tasks, show_refinement>>

NextExtract ==
    \/ ExtractOnce
    \/ ExtractAgain

SpecExtract == InitExtract /\ [][NextExtract]_vars

-----------------------------------------------------------------------------
(* The refinement section on its own: code is generated, the section is    *)
(* opened with Refine Code, and Apply Refinement or Cancel is pressed.     *)

\* what the user may have typed as the refinement request
Requests == {" ", "add interlock"}

\* the operation name with input has run and left r, the refinement section
\* shown or hidden as told
Refining(name, input, r, shown) ==
    /\ steps' = steps + 1
    /\ session_state' = r.ss
    /\ op' = [name |-> name, input |-> input]
    /\ calls' = r.calls
    /\ ui' = r.ui
    /\ outcome' = r.outcome
    /\ show_refinement' = shown
    /\ UNCHANGED <<kb_dir, pending_input, kb_query, kb_top_k, kb_hits, runner_call,
                   runner_result, tasks, extraction>>

\* main.py 257-258: the button is drawn only under a code artifact
RefineCode ==
    /\ steps < MaxOps
    /\ Truthy(session_state.generated_code)
    /\ Refining("refine_code", "", Result(session_state, <<>>, <<>>, "returned"), TRUE)

\* main.py 307 and 317-344
ApplyRefinementPressed ==
    /\ steps < MaxOps
    /\ show_refinement
    /\ \E request \in Requests :
          \E r \in apply_refinement(session_state, request) :
              Refining("apply_refinement", request, r, show_refinement)

\* main.py 346-349
CancelRefinement ==
    /\ steps < MaxOps
    /\ show_refinement
    /\ Refining("cancel_refinement", "", Result(session_state, <<>>, <<>>, "rerun"), FALSE)

NextRefine ==
    \/ GenerateCode
    \/ RefineCode
    \/ ApplyRefinementPressed
    \/ CancelRefinement

SpecRefine == Init /\ [][NextRefine]_vars



-----------------------------------------------------------------------------
(* Properties                                                              *)

\* the operations that run handle_generate_code
GenerateOps == {"generate_code", "generate_both"}

\* the positions, in the invocations cs of one operation, of the runs of a stage
StageCalls(cs, stage) == {i \in 1..Len(cs) : cs[i].stage = stage}
Invoked(cs, stage) == StageCalls(cs, stage) # {}
FailedCalls(cs, stage) == {i \in StageCalls(cs, stage) : cs[i].failed}

\* the input is one generate-code accepts: at least 10 characters once the
\* surrounding whitespace is removed
Accepted(input) == Len(Strip(input)) >= 10

\* C1: while a clarification is pending and unanswered, an operation that
\* runs generate-code neither invokes the code-generation stage nor changes
\* generated_code.
C1_PendingHaltsGeneration ==
    [][(session_state.clarification_needed /\ op'.name \in GenerateOps)
        => /\ ~Invoked(calls', "Code generation")
           /\ session_state'.generated_code = session_state.generated_code]_vars

\* C2: once a pending clarification has been answered, the next generate-code
\* for the input that raised it does not invoke the clarification stage, does
\* invoke the code-generation stage, and does not leave a clarification
\* pending again.
C2_SingleRoundClarification ==
    [][(/\ op.name = "proceed_with_clarification"
        /\ outcome = "rerun"
        /\ pending_input.some
        /\ op'.name \in GenerateOps
        /\ op'.input = pending_input.v)
        => /\ ~Invoked(calls', "Requirements analysis")
           /\ Invoked(calls', "Code generation")
           /\ ~session_state'.clarification_needed]_vars

\* C3: generate-code with an accepted input and no clarification pending
\* invokes the clarification stage exactly once; when that stage's output
\* contains the marker in any letter case the same operation invokes the
\* code-generation stage; otherwise it ends with clarification_needed true,
\* clarification_question equal to the output, and no code-generation
\* invocation.
C3_ClarificationGate ==
    [][(/\ op'.name \in GenerateOps
        /\ Accepted(op'.input)
        /\ ~session_state.clarification_needed)
        => /\ Cardinality(StageCalls(calls', "Requirements analysis")) = 1
           /\ \A i \in StageCalls(calls', "Requirements analysis") :
                 \A output \in {calls'[i].text} :
                    IF IsSubstr("clear_input", Lower(output))
                    THEN Invoked(calls', "Code generation")
                    ELSE /\ session_state'.clarification_needed
                         /\ session_state'.clarification_question = output
                         /\ ~Invoked(calls', "Code generation")]_vars

\* a generate-code whose clarification output carries the marker in mixed
\* case and which went on to the code-generation stage
C3_MixedCaseMarkerGenerates ==
    /\ op.name = "generate_code"
    /\ \E i \in StageCalls(calls, "Requirements analysis") :
          /\ calls[i].text = "Input is clear: Clear_Input"
          /\ \E j \in StageCalls(calls, "Code generation") : j > i

\* C4: when normalization is enabled and fails on every attempt, generate-code
\* still goes on to the clarification or code-generation stage, the text sent
\* to those stages is built from the original input and not from the runner's
\* error text, and last_prompt is the original input once code generation is
\* reached.
C4_FailedNormalizationUsesOriginal ==
    (op.name \in GenerateOps /\ FailedCalls(calls, "Language normalization") # {})
    => /\ Invoked(calls, "Requirements analysis") \/ Invoked(calls, "Code generation")
       /\ \A i \in StageCalls(calls, "Requirements analysis")
                   \cup StageCalls(calls, "Code generation") :
             /\ IsSubstr(op.input, calls[i].prompt)
             /\ ~IsSubstr("Error in Language normalization", calls[i].prompt)
       /\ Invoked(calls, "Code generation") => session_state.last_prompt = op.input

\* C5: when the code-generation stage failed on every attempt, the
\* validate-and-simulate that follows passes the runner's error text neither
\* to the validation stage as the code nor to the simulation stage inside its
\* prompt.
C5_FailedCodeNotConsumed ==
    [][(op.name \in GenerateOps /\ op'.name = "validate_and_simulate")
        => \A i \in FailedCalls(calls, "Code generation") :
              /\ \A j \in StageCalls(calls', "Code validation") :
                    calls'[j].prompt # calls[i].text
              /\ \A j \in StageCalls(calls', "Logic simulation") :
                    ~IsSubstr(calls[i].text, calls'[j].prompt)]_vars

\* C6: validate-and-simulate with no code artifact (generated_code unset or
\* empty) invokes no stage, leaves the whole session record unchanged, and
\* shows exactly one message, the warning.
C6_ValidateWithoutCodeIsNoOp ==
    [][(op'.name = "validate_and_simulate" /\ ~Truthy(session_state.generated_code))
        => /\ calls' = <<>>
           /\ session_state' = session_state
           /\ ui' = <<Msg("warning", "Please generate code first!")>>]_vars

\* a validate-and-simulate that found no code artifact and only warned
C6_WarnedWithoutCode ==
    /\ op.name = "validate_and_simulate"
    /\ ~Truthy(session_state.generated_code)
    /\ calls = <<>>
    /\ ui = <<Msg("warning", "Please generate code first!")>>

\* C7: when the capability raises on every attempt, the runner has made
\* exactly 3 invocations when it returns, and it returns the failure text,
\* which contains the stage label and the message of the last failure.
C7_RetryBound ==
    (runner_result.done /\ \A i \in 1..3 : runner_call.script[i].raises)
    => /\ runner_result.invocations = 3
       /\ runner_result.failed
       /\ IsSubstr(runner_call.operation_name, runner_result.text)
       /\ IsSubstr(runner_call.script[3].text, runner_result.text)

\* a run in which all three attempts raised, the last with another message
\* than the first two
C7_AllAttemptsRaised ==
    /\ runner_result.done
    /\ \A i \in 1..3 : runner_call.script[i].raises
    /\ runner_call.script[1].text = "timeout"
    /\ runner_call.script[3].text = "rate limit"
    /\ runner_result.invocations = 3

\* C8: when the first attempt that does not raise is attempt k, the runner
\* returns the text of attempt k after exactly k invocations.
C8_ReturnsOnFirstSuccess ==
    \A k \in 1..3 :
        (/\ runner_result.done
         /\ ~runner_call.script[k].raises
         /\ \A j \in 1..(k - 1) : runner_call.script[j].raises)
        => /\ runner_result.text = runner_call.script[k].text
           /\ runner_result.invocations = k
           /\ ~runner_result.failed

\* a run that raised once, then succeeded, with a later attempt that would
\* have returned another text
C8_SucceededOnSecondAttempt ==
    /\ runner_result.done
    /\ runner_call.script[1].raises
    /\ runner_call.script[2] = Return("X := 1;")
    /\ runner_call.script[3] = Return("")
    /\ runner_result.invocations = 2

\* C9: after a generate-code whose code-generation stage succeeded and whose
\* handler completed, generated_code is the content of the first fenced
\* block of the response when there is one, and the whole response otherwise.
C9_StoredCodeIsFirstBlock ==
    (op.name \in GenerateOps /\ outcome = "returned")
    => \A i \in StageCalls(calls, "Code generation") \ FailedCalls(calls, "Code generation") :
          session_state.generated_code =
              Some(LET block == restapp_extract_first_code_block(calls[i].text)
                   IN  IF block.some THEN block.v ELSE calls[i].text)

\* the artifact fields of the session, one per stage output
ArtifactFields ==
    {"generated_code", "generated_flowchart", "generated_hmi",
     "validation_report", "simulation_report"}
ArtifactsKept(old, new, changed) ==
    \A f \in ArtifactFields \ changed : new[f] = old[f]

\* C10: in validate-and-simulate a failed validation stage is followed by the
\* simulation stage, whose text is written to simulation_report, and a failed
\* simulation stage leaves validation_report as the validation stage wrote
\* it; both leave the other artifacts unchanged.  A failed flowchart stage
\* (Generate Flowchart) changes no artifact but generated_flowchart, a failed
\* HMI stage no artifact but generated_hmi.  In Generate Both a failed
\* code-generation stage is still followed by the flowchart stage when no
\* clarification is pending.
C10_FailuresLocalized ==
    [][/\ (op'.name = "validate_and_simulate"
           /\ FailedCalls(calls', "Code validation") # {})
          => /\ \E j \in StageCalls(calls', "Logic simulation") :
                   session_state'.simulation_report = Some(calls'[j].text)
             /\ ArtifactsKept(session_state, session_state',
                              {"validation_report", "simulation_report"})
       /\ (op'.name = "validate_and_simulate"
           /\ FailedCalls(calls', "Logic simulation") # {})
          => /\ \E j \in StageCalls(calls', "Code validation") :
                   session_state'.validation_report = Some(calls'[j].text)
             /\ ArtifactsKept(session_state, session_state',
                              {"validation_report", "simulation_report"})
       /\ (op'.name = "generate_flowchart"
           /\ FailedCalls(calls', "Flowchart generation") # {})
          => ArtifactsKept(session_state, session_state', {"generated_flowchart"})
       /\ (op'.name = "generate_hmi"
           /\ FailedCalls(calls', "HMI generation") # {})
          => ArtifactsKept(session_state, session_state', {"generated_hmi"})
       /\ (op'.name = "generate_both"
           /\ FailedCalls(calls', "Code generation") # {}
           /\ ~session_state'.clarification_needed)
          => Invoked(calls', "Flowchart generation")]_vars

\* a validate-and-simulate whose validation stage failed on every attempt and
\* whose simulation stage ran and wrote its report
C10_SimulatedAfterFailedValidation ==
    /\ op.name = "validate_and_simulate"
    /\ FailedCalls(calls, "Code validation") # {}
    /\ \E j \in StageCalls(calls, "Logic simulation") :
          /\ ~calls[j].failed
          /\ session_state.simulation_report = Some(calls[j].text)

\* the operations that take the text area as their input
GenerateButtons == {"generate_code", "generate_flowchart", "generate_both", "generate_hmi"}

\* C11: generate-code, generate-flowchart, generate-HMI (and Generate Both,
\* which runs the first two) with an input that is empty after trimming
\* invoke no stage and leave every session field unchanged; the operation
\* returns normally.
C11_BlankInputIsNoOp ==
    [][(op'.name \in GenerateButtons /\ Strip(op'.input) = "")
        => /\ calls' = <<>>
           /\ session_state' = session_state
           /\ outcome' = "returned"]_vars

\* a Generate Flowchart with a blank input, in a session that already holds
\* a code artifact, that only warned
C11_BlankFlowchartWarned ==
    /\ op.name = "generate_flowchart"
    /\ op.input = "  "
    /\ calls = <<>>
    /\ session_state.generated_code.some
    /\ ~session_state.generated_flowchart.some
    /\ ui = <<Msg("warning", "Please enter some control logic.")>>

\* C12: a generate operation (code, flowchart, HMI) whose input is non-empty
\* but shorter than 10 characters after trimming shows a warning, invokes no
\* stage and writes no artifact field.
C12_ShortInputDoesNotAdvance ==
    [][(/\ op'.name \in GenerateButtons
        /\ Strip(op'.input) # ""
        /\ Len(Strip(op'.input)) < 10)
        => /\ calls' = <<>>
           /\ ArtifactsKept(session_state, session_state', {})
           /\ \E i \in 1..Len(ui') : ui'[i].level = "warning"]_vars

\* C14: in Generate Both with normalization enabled and successful, the text
\* sent to the flowchart stage is the text sent to the code-generation stage
\* (the normalized input), and last_prompt afterwards is that normalized
\* text.
C14_FlowchartUsesNormalizedInput ==
    (op.name = "generate_both" /\ outcome = "returned")
    => \A n \in StageCalls(calls, "Language normalization")
                    \ FailedCalls(calls, "Language normalization") :
          \A f \in StageCalls(calls, "Flowchart generation") :
             /\ \A c \in StageCalls(calls, "Code generation") :
                   calls[f].prompt = calls[c].prompt
             /\ session_state.last_prompt = calls[n].text

\* the chunk store of the session
Store == session_state.kb_index.v

\* the score of a chunk for the query of the last retrieve_kb call
ChunkScore(item) == Score(item, FindTokens(Lower(kb_query)))

\* the position of a chunk in the chunk store
StoreIndex(item) == CHOOSE i \in 1..Len(Store) : Store[i] = item

\* C15: the prompt a generation stage receives contains the section
\* "Reference Context (from KB):" exactly when grounding is enabled and the
\* retrieval for the input returns at least one chunk; otherwise the prompt
\* is exactly the input text.
C15_ContextSectionIffHits ==
    (op.name = "generate_hmi" /\ calls # <<>>)
    => LET Grounded(found) ==
               /\ IsSubstr("Reference Context (from KB):", calls[1].prompt)
                     <=> (session_state.use_rag /\ found # <<>>)
               /\ ~(session_state.use_rag /\ found # <<>>)
                     => calls[1].prompt = op.input
       IN  Grounded(RetrieveHits(Store, op.input, TOP_K))

\* a generation with grounding enabled, a loaded store with chunks, and a
\* query that has no token: the prompt is the bare input
C15_TokenFreeQueryBarePrompt ==
    /\ op.name = "generate_hmi"
    /\ op.input = "?!"
    /\ session_state.use_rag
    /\ Len(Store) > 0
    /\ calls # <<>>
    /\ calls[1].prompt = "?!"

\* C16: a retrieval result has at most top_k chunks, in order of
\* non-increasing score, and chunks of equal score are in the order they
\* have in the chunk store.
C16_AtMostTopKSortedStable ==
    kb_hits.done
    => /\ Len(kb_hits.v) <= kb_top_k
       /\ \A i \in 1..Len(kb_hits.v) : \A j \in (i + 1)..Len(kb_hits.v) :
             /\ ChunkScore(kb_hits.v[i]) >= ChunkScore(kb_hits.v[j])
             /\ ChunkScore(kb_hits.v[i]) = ChunkScore(kb_hits.v[j])
                   => StoreIndex(kb_hits.v[i]) < StoreIndex(kb_hits.v[j])

\* a retrieval that returned two chunks of equal score and left a third
\* chunk of that score out
C16_TieCutByTopK ==
    /\ kb_hits.done
    /\ kb_query = "Pump on"
    /\ kb_top_k = 2
    /\ Len(kb_hits.v) = 2
    /\ ChunkScore(kb_hits.v[1]) = ChunkScore(kb_hits.v[2])
    /\ Len(Store) = 5

\* the chunks of the store that score above 0 for the query
PositiveChunks == {i \in 1..Len(Store) : ChunkScore(Store[i]) > 0}

\* C17: every returned chunk has a positive score, no chunk left out scores
\* strictly more than a returned one, and as many chunks are returned as
\* top_k and the number of positive-score chunks allow; a query without a
\* token returns nothing; with the store "Motor Start", "Pressure Safety" the
\* query "pressure" returns chunk 1 only.
C17_BestPositiveChunks ==
    kb_hits.done
    => LET returned == {StoreIndex(kb_hits.v[i]) : i \in 1..Len(kb_hits.v)} IN
       /\ \A i \in 1..Len(kb_hits.v) : kb_hits.v[i] \in {Store[n] : n \in 1..Len(Store)}
       /\ returned \subseteq PositiveChunks
       /\ \A out \in (1..Len(Store)) \ returned : \A in \in returned :
             ChunkScore(Store[out]) <= ChunkScore(Store[in])
       /\ Len(kb_hits.v) = IF Cardinality(PositiveChunks) < kb_top_k
                           THEN Cardinality(PositiveChunks) ELSE kb_top_k
       /\ FindTokens(Lower(kb_query)) = <<>> => kb_hits.v = <<>>
       /\ (/\ Len(Store) = 2
           /\ Store[1].content = "Motor Start"
           /\ Store[2].content = "Pressure Safety"
           /\ kb_query = "pressure"
           /\ kb_top_k >= 1)
          => kb_hits.v = <<Store[2]>>

\* the retrieval of the example: store "Motor Start", "Pressure Safety",
\* query "pressure", one chunk returned
C17_PressureExample ==
    /\ kb_hits.done
    /\ Len(Store) = 2
    /\ Store[1].content = "Motor Start"
    /\ kb_query = "pressure"
    /\ kb_top_k = 2
    /\ Len(kb_hits.v) = 1
    /\ kb_hits.v[1].chunk_id = 1

\* C18: once kb_index is set, no retrieval, no composition and no other step
\* changes it, whatever the query, the top_k and the files then on disk.
C18_StoreNeverMutated ==
    [][session_state.kb_index.some
        => session_state'.kb_index = session_state.kb_index]_vars

\* a retrieval made after the files on disk changed, which kept the store
\* loaded before the change
C18_RetrievedFromOldStore ==
    /\ op.name = "retrieve_kb"
    /\ session_state.kb_index.some
    /\ Len(Store) = 3
    /\ kb_dir = PumpsDir
    /\ kb_hits.v # <<>>

\* every file of the directory holds a byte that does not decode as UTF-8
AllFilesNonText(dir) ==
    /\ dir.exists
    /\ dir.files # <<>>
    /\ \A i \in 1..Len(dir.files) : IsSubstr(BAD_BYTE, dir.files[i].data)

\* C19: the load of a directory whose files are all non-text sets an empty
\* chunk store.
C19_NonTextFilesGiveNoChunks ==
    [][(/\ ~session_state.kb_index.some
        /\ session_state'.kb_index.some
        /\ AllFilesNonText(kb_dir))
        => session_state'.kb_index.v = <<>>]_vars

\* the task has left its handler
Finished(task) == task.pc \in {"done", "raised"}

\* the handler result is the one in which the stage answered as it answered
\* the task
SameResponse(r, task) == r.calls = <<>> \/ r.calls[1].text = task.run.text

\* the sessions left by the flowchart handler and then the HMI handler, one
\* after the other, from the session the tasks started from, with the
\* tasks' stage responses
FlowchartThenHmi ==
    UNION {{b.ss : b \in {r \in handle_generate_hmi(a.ss, kb_dir, tasks.prompt) :
                             SameResponse(r, tasks.hmi)}}
              : a \in {r \in handle_generate_flowchart(tasks.start, kb_dir, tasks.prompt) :
                          SameResponse(r, tasks.flowchart)}}

\* the same with the HMI handler first
HmiThenFlowchart ==
    UNION {{b.ss : b \in {r \in handle_generate_flowchart(a.ss, kb_dir, tasks.prompt) :
                             SameResponse(r, tasks.flowchart)}}
              : a \in {r \in handle_generate_hmi(tasks.start, kb_dir, tasks.prompt) :
                          SameResponse(r, tasks.hmi)}}

\* C13: generate-flowchart and generate-HMI are independent: the only field
\* both write is kb_index, neither reads a field the other writes except
\* kb_index, and once both have finished, in whatever interleaving, the
\* session is the one left by flowchart-then-HMI and by HMI-then-flowchart.
C13_FlowchartAndHmiIndependent ==
    (Finished(tasks.flowchart) /\ Finished(tasks.hmi))
    => /\ tasks.flowchart.writes \cap tasks.hmi.writes \subseteq {"kb_index"}
       /\ tasks.flowchart.reads \cap tasks.hmi.writes \subseteq {"kb_index"}
       /\ tasks.hmi.reads \cap tasks.flowchart.writes \subseteq {"kb_index"}
       /\ FlowchartThenHmi = {session_state}
       /\ HmiThenFlowchart = {session_state}

\* both tasks found the index missing before either loaded it, both loaded
\* it, and both wrote their artifact
C13_BothLoadedAndWrote ==
    /\ Finished(tasks.flowchart)
    /\ Finished(tasks.hmi)
    /\ tasks.flowchart.loaded
    /\ tasks.hmi.loaded
    /\ {"last_prompt", "generated_flowchart", "conversation_history"}
           \subseteq tasks.flowchart.writes
    /\ "generated_hmi" \in tasks.hmi.writes
    /\ ~tasks.start.kb_index.some
    /\ IsSubstr("Reference Context (from KB):", tasks.hmi.enhanced)

\* C20: the code artifact made of a response with exactly one fenced
\* block, given back to the same normalization, comes out unchanged.  (A
\* first application that raises leaves no artifact to give back.)
C20_NormalizationIdempotent ==
    (extraction.applied = 2 /\ BlockCount(extraction.text) = 1)
    => ~extraction.raised /\ extraction.twice = extraction.once

\* a response with text around its one fenced block, of which the block of
\* three lines was made the artifact, and the artifact normalized again
C20_BlockExtractedTwice ==
    /\ extraction.applied = 2
    /\ extraction.variant = "restapp"
    /\ BlockCount(extraction.text) = 1
    /\ extraction.text = "Here is the code:\n" \o FENCE \o "st\n"
                             \o "BEGIN\nX := 1;\nEND\n" \o FENCE \o "\nDone."
    /\ extraction.once = "BEGIN\nX := 1;\nEND"
    /\ extraction.twice = extraction.once

\* C21: conversation_history is bounded.  A bound that holds for every
\* session holds for the sessions of MaxOps operations, whatever MaxOps is:
\* in a session of MaxOps operations the log stays shorter than MaxOps.
C21_ConversationLogBounded ==
    Len(session_state.conversation_history) < MaxOps

\* C22: no handler operation ends in an exception that leaves the handler.
C22_NoOperationRaises ==
    outcome # "raised"

\* the answers recorded in context_info
RecordedAnswers ==
    {session_state.context_info[i].value : i \in 1..Len(session_state.context_info)}

\* C25: once a clarification answer is recorded in context_info, the prompt
\* a generate-code sends to the code-generation stage contains that answer.
C25_AnswerReachesCodeGeneration ==
    op.name = "generate_code"
    => \A i \in StageCalls(calls, "Code generation") :
          \A answer \in RecordedAnswers : IsSubstr(answer, calls[i].prompt)

\* C26: Generate Both invokes the flowchart stage only if the code step of
\* the same operation invoked the code-generation stage and stored a code
\* artifact.
C26_FlowchartOnlyAfterCode ==
    (op.name = "generate_both" /\ Invoked(calls, "Flowchart generation"))
    => /\ Invoked(calls, "Code generation")
       /\ session_state.generated_code.some

\* C27: a generate-code whose clarification stage failed on every attempt
\* ends with clarification_needed true, the runner's error text as
\* clarification_question, and no code-generation invocation.
C27_FailedClarificationPends ==
    op.name \in GenerateOps
    => \A i \in FailedCalls(calls, "Requirements analysis") :
          /\ session_state.clarification_needed
          /\ session_state.clarification_question = calls[i].text
          /\ ~Invoked(calls, "Code generation")

\* C28: at the end of every operation, validation_report is set only if
\* generated_code is set, and validation_report is set exactly when
\* simulation_report is set.
C28_ReportsInStep ==
    /\ session_state.validation_report.some => session_state.generated_code.some
    /\ session_state.validation_report.some <=> session_state.simulation_report.some

\* a generate-code that replaced the code artifact of a session whose
\* reports were written for the code before it
C28_ReportsOutliveTheirCode ==
    /\ op.name = "generate_code"
    /\ Invoked(calls, "Code generation")
    /\ session_state.validation_report.some
    /\ session_state.simulation_report.some

\* C29: whenever clarification_needed is false, clarification_question is
\* the empty string.
C29_QuestionOnlyWhilePending ==
    ~session_state.clarification_needed => session_state.clarification_question = ""

\* a clarification that was raised with a question and then cleared
C29_ClearedAfterQuestion ==
    /\ op.name = "clear_clarification"
    /\ pending_input.some
    /\ ~session_state.clarification_needed
    /\ session_state.clarification_question = ""

\* C23: the chunk store is loaded at most once per session.  Once kb_index
\* is set, also to the empty sequence, a later step leaves it as it is and a
\* later retrieval answers from it, whatever the kb directory then holds.
C23_LoadedAtMostOnce ==
    [][session_state.kb_index.some
        => /\ session_state'.kb_index.some
           /\ session_state'.kb_index.v = session_state.kb_index.v
           /\ op'.name = "retrieve_kb"
                 => kb_hits'.v = RetrieveHits(session_state.kb_index.v, kb_query', kb_top_k')]_vars

\* a retrieval in a session whose first load found nothing, made when the
\* kb directory holds chunks that match the query
C23_EmptyStoreNotReloaded ==
    /\ op.name = "retrieve_kb"
    /\ session_state.kb_index.some
    /\ Store = <<>>
    /\ kb_dir = PumpsDir
    /\ kb_query = "pump"
    /\ kb_top_k = 2
    /\ kb_hits.v = <<>>

\* C24: in a loaded chunk store no chunk has empty or whitespace-only
\* content, the chunks of one file carry the indices 0..n-1 in store order
\* with no gap, and no two chunks have the same path and chunk_id.
C24_ChunksWellFormed ==
    session_state.kb_index.some
    => /\ \A i \in 1..Len(Store) : Strip(Store[i].content) # ""
       /\ \A i \in 1..Len(Store) :
             Store[i].chunk_id
                 = Cardinality({j \in 1..(i - 1) : Store[j].path = Store[i].path})
       /\ \A i \in 1..Len(Store) : \A j \in 1..Len(Store) :
             (Store[i].path = Store[j].path /\ Store[i].chunk_id = Store[j].chunk_id)
                 => i = j

\* a store loaded from two files, the second file's chunks numbered from 0
C24_TwoFilesIndexed ==
    /\ session_state.kb_index.some
    /\ Len(Store) = 5
    /\ Store[2].path = "notes.txt"
    /\ Store[2].chunk_id = 1
    /\ Store[3].path = "pumps.txt"
    /\ Store[3].chunk_id = 0
    /\ Store[5].chunk_id = 2

====
